---- MODULE Spec2Model ----
(***************************************************************************)
(* A model of classification/dataset.py: PyhaDF_Dataset (bulk caching of   *)
(* canonical waveforms, clip extraction with a clip cache, label encoding, *)
(* item access with augmentation) and get_datasets (train/valid split).    *)
(*                                                                         *)
(* Modelling conventions                                                   *)
(*  - a 1-D tensor is a sequence of integers; the sample NaN stands for a  *)
(*    non-finite value, 0 is what F.pad writes;                            *)
(*  - a path is a record [stem, ext]; "pt" is the tensor extension;        *)
(*  - offsets and durations of a row are counted in ticks of 1/TickDen     *)
(*    second, Null is pandas' NaN;                                         *)
(*  - a label vector is a record [num, den]: entry i is num[i]/den.        *)
(***************************************************************************)
EXTENDS Integers, Sequences, FiniteSets, TLC

\* ---------------------------------------------------------------- bounds
\* CONFIG.sample_rate (samples per second)
SampleRate == 3
\* CONFIG.max_time (seconds)
MaxTime == 1
\* ticks per second of the offset and duration columns
TickDen == 2
\* largest offset (ticks) and duration (ticks) of a row of the clip table
MaxOff == 2
MaxDur == 3
\* longest canonical waveform (samples)
MaxLen == 5
\* CONFIG.train_test_split is cfg.train_p / TrainDen, the augmentation
\* probabilities are cfg.<name> / ProbDen
TrainDen == 5
ProbDen == 2
Config(train_p, p) ==
  [train_p |-> train_p, time_shift_p |-> p, noise_p |-> p, mix_p |-> p,
   freq_mask_p |-> p, time_mask_p |-> p]

\* ------------------------------------------------------------- constants
Null == -1
NaN == -1

Min(a, b) == IF a < b THEN a ELSE b
Max(a, b) == IF a > b THEN a ELSE b

\* --------------------------------------------------------------- tensors
\* audio[a:b] of a 1-D tensor, 0 <= a, 0 <= b (Python slicing clips at the end)
PySlice(audio, a, b) ==
  SubSeq(audio, Min(a, Len(audio)) + 1, Min(b, Len(audio)))

Zeros(n) == [i \in 1..n |-> 0]

\* self.num_samples, __init__
num_samples == SampleRate * MaxTime

\* crop_audio: audio[:self.num_samples]
crop_audio(audio) == PySlice(audio, 0, num_samples)

\* pad_audio: F.pad(audio, (0, num_samples - audio.shape[0]))
pad_audio_full(audio) == audio \o Zeros(num_samples)
pad_audio(audio) == audio \o Zeros(num_samples - Len(audio))

\* int(x * sample_per_sec) for a column value of x ticks (int truncates)
Frames(ticks) == (ticks * SampleRate) \div TickDen

\* extract_clip_and_cache, from the loaded canonical tensor to the tensor saved:
\* the slice is taken only when the tensor is longer than num_frames
ExtractClip(audio, off, dur) ==
  LET frame_offset == Frames(off)
      num_frames == Frames(dur)
      sliced == IF Len(audio) > num_frames
                THEN PySlice(audio, frame_offset, frame_offset + num_frames)
                ELSE audio
      cropped == IF Len(sliced) > num_samples THEN crop_audio(sliced) ELSE sliced
  IN IF Len(cropped) < num_samples THEN pad_audio(cropped) ELSE cropped

\* ----------------------------------------------------------------- paths
Stems == {"a", "b"}
\* the file references a manifest may hold: two share the stem "a"
Paths == { [stem |-> "a", ext |-> "wav"], [stem |-> "a", ext |-> "mp3"],
           [stem |-> "b", ext |-> "wav"] }
Species == {"A", "B"}

\* process_audio_file: exts = "." + path.split(".")[-1]; path.replace(exts, ".pt")
NewPath(path) == [stem |-> path.stem, ext |-> "pt"]
\* the sentinel "bad" in the column "files"
BadPath == [stem |-> "bad", ext |-> ""]

\* what torchaudio.load decodes from an intact file: channels x frames, and
\* the file's native sample rate
RawAudio(path) ==
  IF path.ext = "mp3" THEN << <<20, 22, 24, 26>>, <<22, 24, 26, 28>> >>
  ELSE IF path.stem = "a" THEN << <<11, 12, 13, 14, 15>> >>
  ELSE << <<31, 32, 33, 34, 35, 36>> >>
RawRate(path) == IF path.stem = "b" THEN 2 * SampleRate ELSE SampleRate

\* to_mono: torch.mean(audio, axis=0); a non-finite sample stays non-finite
SumUpTo(audio, i, c) ==
  IF c = 1 THEN audio[1][i]
  ELSE IF c = 2 THEN audio[1][i] + audio[2][i]
  ELSE audio[1][i] + audio[2][i] + audio[3][i]
to_mono(audio) ==
  [i \in 1..Len(audio[1]) |->
     IF \E c \in 1..Len(audio) : audio[c][i] = NaN THEN NaN
     ELSE SumUpTo(audio, i, Len(audio)) \div Len(audio)]

\* audtr.Resample(orig, new)(audio): ceil(len * new / orig) samples
Resample(audio, orig, new) ==
  [i \in 1..((Len(audio) * new + orig - 1) \div orig) |->
     audio[((i - 1) * orig) \div new + 1]]

\* torchaudio.load on a file in state st ("ok": intact, "nan": intact but
\* holding non-finite samples); "corrupt" and "missing" files raise
Decode(path, st) ==
  IF st = "nan"
  THEN [c \in 1..Len(RawAudio(path)) |->
          [i \in 1..Len(RawAudio(path)[c]) |-> NaN]]
  ELSE RawAudio(path)

\* process_audio_file, lines 110-119: the tensor that torch.save writes
Convert(path, st) ==
  LET audio == to_mono(Decode(path, st))
  IN IF RawRate(path) # SampleRate
     THEN Resample(audio, RawRate(path), SampleRate)
     ELSE audio

\* ------------------------------------------------------ process_audio_file
\* One call, on raw files fs and canonical store store:
\* [files: the column "files", store: the store after, loaded: whether
\*  torchaudio.load was called]
process_audio_file_always(path, fs, store) ==
  IF fs[path] \in {"ok", "nan"}
  THEN [files |-> NewPath(path),
        store |-> (path.stem :> Convert(path, fs[path])) @@ store,
        loaded |-> TRUE]
  ELSE [files |-> BadPath, store |-> store, loaded |-> TRUE]
process_audio_file(path, fs, store) ==
  IF path.stem \in DOMAIN store
  THEN [files |-> NewPath(path), store |-> store, loaded |-> FALSE]
  ELSE IF fs[path] \in {"ok", "nan"}
  THEN [files |-> NewPath(path),
        store |-> (path.stem :> Convert(path, fs[path])) @@ store,
        loaded |-> TRUE]
  ELSE [files |-> BadPath, store |-> store, loaded |-> TRUE]

\* pandas unique(): the distinct values in order of first appearance
RECURSIVE Unique(_)
Unique(s) ==
  IF s = <<>> THEN <<>>
  ELSE LET rest == Unique(SubSeq(s, 1, Len(s) - 1))
           x == s[Len(s)]
       IN IF \E i \in 1..Len(rest) : rest[i] = x THEN rest ELSE Append(rest, x)

Column(samples, c) == [i \in 1..Len(samples) |-> samples[i][c]]
Range(s) == {s[i] : i \in 1..Len(s)}

\* ------------------------------------------------------------ verify_audio
\* A cell of a pandas object column or boolean Series; cells of different
\* kinds never compare equal
StrCell(path) == [kind |-> "str", val |-> path]
BoolCell(b) == [kind |-> "bool", val |-> b]
PyEq(x, y) == x.kind = y.kind /\ x.val = y.val
IsIn(x, values) == \E v \in values : PyEq(x, v)

\* os.path.exists of a raw file reference
Exists(path, fs) == fs[path] # "missing"

\* verify_audio: test_df is the boolean Series of os.path.exists over the
\* unique paths, missing_files = test_df[~test_df].unique() holds its values
verify_audio(samples, fs) ==
  LET paths == Unique(Column(samples, "file"))
      test_df == [i \in 1..Len(paths) |-> BoolCell(Exists(paths[i], fs))]
      missing_files == {test_df[i] : i \in {j \in 1..Len(paths) : ~test_df[j].val}}
  IN SelectSeq(samples, LAMBDA r : ~IsIn(StrCell(r.file), missing_files))

\* ---------------------------------------------------------- serialize_data
\* files["files"].progress_apply(self.process_audio_file) over the unique
\* paths, in order: [files: one "files" cell per path, store, loads]
RECURSIVE ProcessAll(_, _, _)
ProcessAll(paths, fs, store) ==
  IF paths = <<>> THEN [files |-> <<>>, store |-> store, loads |-> 0]
  ELSE LET before == ProcessAll(SubSeq(paths, 1, Len(paths) - 1), fs, store)
           one == process_audio_file(paths[Len(paths)], fs, before.store)
       IN [files |-> Append(before.files, one.files),
           store |-> one.store,
           loads |-> before.loads + (IF one.loaded THEN 1 ELSE 0)]

IndexOf(s, x) == CHOOSE i \in 1..Len(s) : s[i] = x

\* lines 160-170: files[files["files"] != "bad"], the left merge on the file
\* column (which renumbers the index 0..n-1), dropna() (any NaN cell drops
\* the row) and the file column replaced by the "files" column
MergeDropna(samples, paths, files) ==
  LET merged == [i \in 1..Len(samples) |->
                   [file |-> files[IndexOf(paths, samples[i].file)],
                    species |-> samples[i].species,
                    off |-> samples[i].off,
                    dur |-> samples[i].dur,
                    idx |-> i - 1]]
  IN SelectSeq(merged,
       LAMBDA r : r.file # BadPath /\ r.off # Null /\ r.dur # Null)

\* serialize_data on the table samples:
\* [raised: FileNotFoundError, verified: the table after verify_audio,
\*  paths, files: the columns "IN FILE" and "files" of the local frame files
\*  (line 152), samples: self.samples at the end, store, loads]
serialize_data(samples, fs, store) ==
  LET verified == verify_audio(samples, fs)
      paths == Unique(Column(verified, "file"))
      done == ProcessAll(paths, fs, store)
      num_files == Len(done.files)
  IN [raised |-> num_files = 0,
      verified |-> verified,
      paths |-> paths,
      files |-> done.files,
      samples |-> IF num_files = 0 THEN verified
                  ELSE MergeDropna(verified, paths, done.files),
      store |-> done.store,
      loads |-> done.loads]

\* ---------------------------------------------------------------- __init__
\* lines 73-80: the class list and the class index
ClassToIdx(classes) ==
  [c \in Range(classes) |-> IndexOf(classes, c) - 1]
NoSpecies == [given |-> FALSE, classes |-> <<>>, class_to_idx |-> [c \in {} |-> 0]]

NoDataset ==
  [status |-> "none", train |-> TRUE, samples |-> <<>>, verified |-> <<>>,
   paths |-> <<>>, files |-> <<>>,
   classes |-> <<>>, class_to_idx |-> [c \in {} |-> 0], num_classes |-> 0,
   bad_files |-> <<>>, loads |-> 0, run |-> 0]

\* PyhaDF_Dataset(df, train=train, species=species) with the outcome out of
\* serialize_data: the instance, or status "raised" when __init__ raised.
\* verified, paths, files and loads record what serialize_data saw and did;
\* run counts the constructions.
NewDataset(df, train, species, out, run) ==
  LET classes == IF species.given THEN species.classes
                 ELSE Unique(Column(df, "species"))
      class_to_idx == IF species.given THEN species.class_to_idx
                      ELSE ClassToIdx(classes)
  IN [status |-> IF out.raised THEN "raised" ELSE "ok",
      train |-> train,
      samples |-> out.samples,
      verified |-> out.verified,
      paths |-> out.paths,
      files |-> out.files,
      classes |-> classes,
      class_to_idx |-> class_to_idx,
      num_classes |-> Len(classes),
      bad_files |-> <<>>,
      loads |-> out.loads,
      run |-> run]

\* get_classes
get_classes_none(d) == NoSpecies
get_classes(d) ==
  [given |-> TRUE, classes |-> d.classes, class_to_idx |-> d.class_to_idx]

\* ---------------------------------------------------------------- get_clip
\* the clip cache file name: the base name without its extension, then
\* str(offset), then ".pt"
ClipKey(path, off) == <<path.stem, off>>

\* one_hot(x, num_classes)[0]: on_value at position x, off_value elsewhere
one_hot(x, n) == [num |-> [i \in 1..n |-> IF i = x + 1 THEN 1 ELSE 0], den |-> 1]

\* lines 195-198: the label vector of a class name; the dictionary lookup
\* raises KeyError for a name that is no key
EncodeZero(d, class_name) ==
  IF class_name \notin DOMAIN d.class_to_idx
  THEN [kind |-> "ok", target |-> [num |-> Zeros(d.num_classes), den |-> 1]]
  ELSE [kind |-> "ok",
        target |-> one_hot(d.class_to_idx[class_name], d.num_classes)]
Encode(d, class_name) ==
  IF class_name \notin DOMAIN d.class_to_idx
  THEN [kind |-> "KeyError"]
  ELSE [kind |-> "ok",
        target |-> one_hot(d.class_to_idx[class_name], d.num_classes)]

\* lines 200-208: an exception of torch.load or of extract_clip_and_cache
\* (raised before its torch.save) becomes RuntimeError("Bad Audio")
OnClipFailureSaved(cache, cache_path) ==
  [kind |-> "RuntimeError", cache |-> (cache_path :> <<>>) @@ cache]
OnClipFailure(cache, cache_path) == [kind |-> "RuntimeError", cache |-> cache]

\* get_clip(index) of dataset d on canonical store and clip cache:
\* [kind: "clip" or the exception, audio, target, hit, cache: the cache after]
get_clip(d, index, store, cache) ==
  IF index < 0 \/ index >= Len(d.samples)
  THEN [kind |-> "IndexError", cache |-> cache]
  ELSE
  LET annotation == d.samples[index + 1]
      path == annotation.file
      cache_path == ClipKey(path, annotation.off)
      class_name == annotation.species
      encoded == Encode(d, class_name)
  IN IF encoded.kind # "ok"
     THEN [kind |-> encoded.kind, cache |-> cache]
     ELSE
     LET target == encoded.target
     IN IF cache_path \in DOMAIN cache
        THEN [kind |-> "clip", audio |-> cache[cache_path], target |-> target,
              hit |-> TRUE, cache |-> cache]
        ELSE IF \/ path.stem \notin DOMAIN store
                \/ annotation.off = Null \/ annotation.dur = Null
        THEN OnClipFailure(cache, cache_path)
        ELSE LET audio == ExtractClip(store[path.stem], annotation.off,
                                      annotation.dur)
             IN [kind |-> "clip", audio |-> audio, target |-> target,
                 hit |-> FALSE, cache |-> (cache_path :> audio) @@ cache]

\* what a caller of get_clip sees
ClipRet(out, d, index) ==
  IF out.kind = "clip"
  THEN [kind |-> "clip", audio |-> out.audio, target |-> out.target,
        hit |-> out.hit, d |-> d, index |-> index]
  ELSE [kind |-> out.kind, d |-> d, index |-> index]

\* ------------------------------------------------------------------ state
VARIABLES
  rawFs,       \* the raw audio files: [Paths -> "ok", "nan", "corrupt", "missing"]
  canonStore,  \* canonical entries: stem of the .pt file -> 1-D tensor
  clipCache,   \* clip cache entries: <<stem, offset>> -> 1-D tensor
  cfg,         \* CONFIG: train_test_split and the augmentation probabilities
  data,        \* the manifest: the rows of the CSV
  split,       \* [train, valid]: the tables handed to the two constructors
  ds,          \* [train, valid]: the two dataset instances
  pc,          \* where the caller (get_datasets, or a script) stands
  ret,         \* what the last call returned or raised
  pending      \* the __getitem__ call a retry has started, not yet run

vars == <<rawFs, canonStore, clipCache, cfg, data, split, ds, pc, ret, pending>>

NoRet == [kind |-> "none"]
NoCall == [d |-> "", index |-> 0, depth |-> 0]
DsNames == {"train", "valid"}
\* constructions of one dataset a behaviour holds (a run is a new process)
MaxRuns == 2

\* The constructor call PyhaDF_Dataset(df, train=train, species=species),
\* stored as dataset d
Construct(d, df, train, species) ==
  LET out == serialize_data(df, rawFs, canonStore)
  IN /\ ds[d].run < MaxRuns
     /\ ds' = [ds EXCEPT ![d] = NewDataset(df, train, species, out, ds[d].run + 1)]
     /\ canonStore' = out.store
     /\ ret' = [kind |-> IF out.raised THEN "FileNotFoundError" ELSE "dataset",
                d |-> d]
     /\ UNCHANGED <<rawFs, clipCache, cfg, data, split, pending>>

\* a call of get_clip(index) on dataset d
GetClip(d, index) ==
  LET out == get_clip(ds[d], index, canonStore, clipCache)
  IN /\ pc \in {"script", "ready"}
     /\ pending = NoCall
     /\ ds[d].status = "ok"
     /\ clipCache' = out.cache
     /\ ret' = ClipRet(out, d, index)
     /\ UNCHANGED <<rawFs, canonStore, cfg, data, split, ds, pc, pending>>

\* -------------------------------------------------------------- __getitem__
\* resolution of np.random.rand() in the mixing coefficient
RandDen == 2
\* line 267: alpha = np.random.rand() * 0.3 + 0.1, as MixScale/MixDen and
\* MixBase/MixDen
MixScale == 3
MixBase == 1
MixDen == 10
\* alpha = AlphaNum(k) / AlphaDen for the draw rand() = k / RandDen
AlphaDen == MixDen * RandDen
AlphaNum(k) == MixBase * RandDen + MixScale * k
\* entries of bad_files after which the caller starts no new access
\* (bad_files grows without bound in the program)
MaxBad == 1
\* nested calls of __getitem__ the interpreter allows (sys.getrecursionlimit())
RecursionLimit == 1

\* the outcomes of torch.rand(1) < p (uniform on [0, 1)) and of
\* torch.randn(1) < p (standard normal), p = n / ProbDen
UniformBelow(n) ==
  IF n <= 0 THEN {FALSE} ELSE IF n >= ProbDen THEN {TRUE} ELSE BOOLEAN
NormalBelow(n) == BOOLEAN

\* line 269: target * alpha + target_2 * (1 - alpha)
MixTargetSame(target, target_2, k) ==
  [num |-> [i \in 1..Len(target.num) |->
              AlphaNum(k) * target.num[i] + AlphaNum(k) * target_2.num[i]],
   den |-> AlphaDen]
MixTarget(target, target_2, k) ==
  [num |-> [i \in 1..Len(target.num) |->
              AlphaNum(k) * target.num[i]
                + (AlphaDen - AlphaNum(k)) * target_2.num[i]],
   den |-> AlphaDen]

HasNaN(audio) == \E i \in 1..Len(audio) : audio[i] = NaN

\* One run of the body of __getitem__(index) on dataset d with the draws
\* g = [shift, noise, mix, freq, time: the gates, partner: randint(0, len),
\*      k: rand() = k / RandDen]:
\* [kind: "item", "nan" (line 287 found a non-finite image) or the exception,
\*  target, image, cache: the clip cache after]
getitem(d, index, g, store, cache) ==
  LET first == get_clip(d, index, store, cache)
  IN IF first.kind # "clip" THEN [kind |-> first.kind, cache |-> first.cache]
     ELSE IF d.train /\ g.shift
     THEN \* torch.roll(audio, shift, dims=1) on a 1-D tensor
          [kind |-> "IndexError", cache |-> first.cache]
     ELSE
     LET noise == d.train /\ g.noise
         mix == d.train /\ g.mix
         second == IF mix THEN get_clip(d, g.partner, store, first.cache)
                   ELSE first
     IN IF second.kind # "clip"
        THEN [kind |-> second.kind, cache |-> second.cache]
        ELSE
        LET target == IF mix THEN MixTarget(first.target, second.target, g.k)
                      ELSE first.target
            steps == (IF noise THEN {"noise"} ELSE {})
                       \cup (IF mix THEN {"mixup"} ELSE {})
                       \cup (IF d.train /\ g.freq THEN {"freq_mask"} ELSE {})
                       \cup (IF d.train /\ g.time THEN {"time_mask"} ELSE {})
            isnan == HasNaN(first.audio) \/ (mix /\ HasNaN(second.audio))
        IN [kind |-> IF isnan THEN "nan" ELSE "item",
            target |-> target,
            image |-> [audio |-> first.audio, steps |-> steps],
            cache |-> second.cache]

\* the draws one run of the body can make: "self.train and ..." draws
\* nothing in validation, nothing is drawn after torch.roll raised, and the
\* partner and rand() are drawn under mixup only
Draws(d) ==
  IF ~d.train
  THEN {[shift |-> FALSE, noise |-> FALSE, mix |-> FALSE, freq |-> FALSE,
         time |-> FALSE, partner |-> 0, k |-> 0]}
  ELSE {g \in [shift : UniformBelow(cfg.time_shift_p),
               noise : NormalBelow(cfg.noise_p),
               mix : NormalBelow(cfg.mix_p), freq : NormalBelow(cfg.freq_mask_p),
               time : NormalBelow(cfg.time_mask_p),
               partner : 0..(Len(d.samples) - 1), k : 0..(RandDen - 1)] :
          /\ g.shift => (~g.noise /\ ~g.mix /\ ~g.freq /\ ~g.time)
          /\ ~g.mix => (g.partner = 0 /\ g.k = 0)}

\* line 291 calls self[...] from inside __getitem__: the interpreter raises
\* RecursionError for a call nested deeper than its recursion limit
RecursionOverflowNever(depth) == FALSE
RecursionOverflow(depth) == depth > RecursionLimit

\* One run of the body of __getitem__: the call dataset[index] of the
\* training loop (while fewer than MaxBad indices are logged), or the call
\* self[label] that line 291 made (pending).
\* A non-finite image appends index to bad_files and calls
\* self[self.samples.sample(1).index[0]], whose result is the result.
GetItem(d, index) ==
  /\ pc \in {"script", "ready"}
  /\ ds[d].status = "ok"
  /\ \/ pending = NoCall /\ Len(ds[d].bad_files) < MaxBad
     \/ pending.d = d /\ pending.index = index
  /\ \E g \in Draws(ds[d]) :
       LET out == getitem(ds[d], index, g, canonStore, clipCache)
       IN /\ clipCache' = out.cache
          /\ IF out.kind = "nan"
             THEN /\ ds' = [ds EXCEPT ![d].bad_files = Append(@, index)]
                  /\ IF RecursionOverflow(pending.depth + 1)
                     THEN /\ pending' = NoCall
                          /\ ret' = [kind |-> "RecursionError", d |-> d,
                                     index |-> index]
                     ELSE /\ \E i \in 1..Len(ds[d].samples) :
                               pending' = [d |-> d,
                                           index |-> ds[d].samples[i].idx,
                                           depth |-> pending.depth + 1]
                          /\ ret' = NoRet
             ELSE /\ ds' = ds
                  /\ pending' = NoCall
                  /\ ret' = IF out.kind = "item"
                            THEN [kind |-> "item", d |-> d, index |-> index,
                                  target |-> out.target, image |-> out.image,
                                  retries |-> pending.depth]
                            ELSE [kind |-> out.kind, d |-> d, index |-> index]
  /\ UNCHANGED <<rawFs, canonStore, cfg, data, split, pc>>

\* ------------------------------------------------------------ get_datasets

\* Python's round(a / b) for a >= 0, b > 0: halves go to the even integer
RoundHalfEven(a, b) ==
  LET q == a \div b
      r == a % b
  IN IF 2 * r < b THEN q
     ELSE IF 2 * r > b THEN q + 1
     ELSE IF q % 2 = 0 THEN q ELSE q + 1

SpeciesOf(rows) == {rows[i].species : i \in 1..Len(rows)}
FilesOfSpecies(rows, sp) == {rows[i].file : i \in {j \in 1..Len(rows) : rows[j].species = sp}}

\* lines 333-335: the values train_files may take: for each species a sample
\* of round(train_p * n) of its n distinct files, put together
TrainFiles(rows, train_p) ==
  {UNION {pick[sp] : sp \in SpeciesOf(rows)} :
     pick \in {f \in [SpeciesOf(rows) -> SUBSET Paths] :
                 \A sp \in SpeciesOf(rows) :
                    /\ f[sp] \subseteq FilesOfSpecies(rows, sp)
                    /\ Cardinality(f[sp]) =
                         RoundHalfEven(train_p * Cardinality(FilesOfSpecies(rows, sp)),
                                       TrainDen)}}

\* lines 336-339: train = the rows of the sampled files, valid = the rows
\* whose index is not in train.index
TrainValid(rows, train_files) ==
  LET train == SelectSeq(rows, LAMBDA r : r.file \in train_files)
  IN [train |-> train,
      valid |-> SelectSeq(rows, LAMBDA r : r.idx \notin Range(Column(train, "idx")))]

\* get_datasets up to the two tables
Split ==
  /\ pc = "start"
  /\ \E train_files \in TrainFiles(data, cfg.train_p) : split' = TrainValid(data, train_files)
  /\ pc' = "split"
  /\ UNCHANGED <<rawFs, canonStore, clipCache, cfg, data, ds, ret, pending>>

\* train_ds = PyhaDF_Dataset(train, csv_file="train.csv", CONFIG=CONFIG)
ConstructTrain ==
  /\ pc = "split"
  /\ Construct("train", split.train, TRUE, NoSpecies)
  /\ pc' = IF ds'["train"].status = "raised" THEN "raised" ELSE "train_built"

\* species = train_ds.get_classes(); valid_ds = PyhaDF_Dataset(valid,
\* csv_file="valid.csv", train=False, species=species, CONFIG=CONFIG)
ConstructValid ==
  /\ pc = "train_built"
  /\ Construct("valid", split.valid, FALSE, get_classes(ds["train"]))
  /\ pc' = IF ds'["valid"].status = "raised" THEN "raised" ELSE "ready"

\* ------------------------------------------------- bulk caching on its own
\* rows of a manifest (the CSV read by the caller)
MaxRows == 3

SeqsUpTo(S, n) == UNION {[1..k -> S] : k \in 0..n}
\* the index column of the CSV: 0..n-1
Reindex(rows) == [i \in 1..Len(rows) |-> [rows[i] EXCEPT !.idx = i - 1]]

\* rows whose duration cell may be empty
BuildRows ==
  {[file |-> p, species |-> "A", off |-> 0, dur |-> du, idx |-> 0] :
     p \in Paths, du \in {1, Null}}
\* canonical entries left by an earlier run (the raw file may be gone since)
EarlierStores ==
  {[s \in S |-> Convert([stem |-> s, ext |-> "wav"], "ok")] : S \in SUBSET Stems}

InitBuild ==
  /\ rawFs \in [Paths -> {"ok", "corrupt", "missing"}]
  /\ canonStore \in EarlierStores
  /\ clipCache = <<>>
  /\ cfg = Config(3, 0)
  /\ \E rows \in SeqsUpTo(BuildRows, MaxRows) : data = Reindex(rows)
  /\ split = [train |-> data, valid |-> <<>>]
  /\ ds = [d \in DsNames |-> NoDataset]
  /\ pc = "script"
  /\ ret = NoRet
  /\ pending = NoCall

\* a script builds the dataset of the manifest, and may be run again
Build == pc = "script" /\ Construct("train", split.train, TRUE, NoSpecies) /\ pc' = pc

NextBuild == Build
SpecBuild == InitBuild /\ [][NextBuild]_vars

\* ---------------------------------------------------- claims, bulk caching
Referenced(df) == {df[i].file : i \in 1..Len(df)}
AllCached(df, store) == \A p \in Referenced(df) : p.stem \in DOMAIN store
Built(d) == ds[d].run > 0
\* the "files" cell that process_audio_file returned for a path
Resolved(d, path) == ds[d].files[IndexOf(ds[d].paths, path)]

\* C3: a canonical entry, once created, is never overwritten or removed, and
\* a construction over a store that holds an entry for every referenced file
\* calls torchaudio.load zero times and leaves the store as it was.
C3_BulkCachingIdempotent ==
  [][ /\ \A s \in DOMAIN canonStore :
           s \in DOMAIN canonStore' /\ canonStore'[s] = canonStore[s]
      /\ (ds'["train"].run = ds["train"].run + 1 /\ AllCached(split.train, canonStore))
           => (ds'["train"].loads = 0 /\ canonStore' = canonStore) ]_vars

\* a second run that converted nothing, over entries a first run wrote
C3_Witness ==
  /\ ds["train"].run = 2 /\ ds["train"].status = "ok"
  /\ ds["train"].loads = 0
  /\ Len(ds["train"].samples) >= 2
  /\ DOMAIN canonStore = Stems
  /\ canonStore["a"] = Convert([stem |-> "a", ext |-> "mp3"], "ok")

\* C4: after serialize_data the sample table holds exactly the rows whose
\* file reference did not resolve to "bad" (none of them dropped, every row
\* of a bad reference dropped), and the construction does not raise.
C4_ExactlyBadRowsDropped ==
  (Built("train") /\ Len(ds["train"].verified) > 0) =>
    /\ ds["train"].status = "ok"
    /\ Column(ds["train"].samples, "idx") =
         Column(SelectSeq(Reindex(ds["train"].verified),
                          LAMBDA r : Resolved("train", r.file) # BadPath), "idx")

\* C5: a dataset instance that was constructed without an error is not empty
\* (stated for tables with no empty cell, where only files decide).
Complete(df) == \A i \in 1..Len(df) : df[i].off # Null /\ df[i].dur # Null
C5_ConstructedNeverEmpty ==
  (ds["train"].status = "ok" /\ Complete(split.train))
     => Len(ds["train"].samples) > 0

\* C6: the table verify_audio leaves is the input table restricted to the
\* rows whose file exists.
C6_VerifiedRowsExist ==
  Built("train") =>
    ds["train"].verified = SelectSeq(split.train, LAMBDA r : Exists(r.file, rawFs))

\* C7: when the only defect of a manifest is missing files, the construction
\* succeeds, length() is the row count minus the rows of missing files, and
\* no row of a missing file is in the table.
OnlyMissingDefects(df) ==
  /\ Complete(df)
  /\ \A p \in Referenced(df) : rawFs[p] \in {"ok", "missing"}
C13_BadFileLogged ==
  (Built("train") /\ Complete(split.train) /\ Len(split.train) > 0) =>
    /\ ds["train"].status = "ok"
    /\ \A p \in Referenced(ds["train"].verified) :
         (rawFs[p] = "corrupt" /\ Resolved("train", p) = BadPath)
            => p \in Range(ds["train"].bad_files)

\* C20: two distinct file references of a manifest never resolve to the same
\* canonical entry, and the entry a converted reference resolves to holds
\* the audio converted from that reference.
C20_CanonicalKeyInjective ==
  Built("train") =>
    \A p, q \in Referenced(ds["train"].verified) :
      (Resolved("train", p) # BadPath /\ Resolved("train", q) # BadPath) =>
        /\ p # q => Resolved("train", p) # Resolved("train", q)
        /\ rawFs[p] = "ok" =>
             canonStore[Resolved("train", p).stem] = Convert(p, rawFs[p])

\* --------------------------------------------------- clip extraction alone
\* a canonical tensor of n samples, each naming its position
Wave(n) == [i \in 1..n |-> i]

\* one row per offset and duration, all of the file a.wav
ClipTable ==
  Reindex([k \in 1..((MaxOff + 1) * MaxDur) |->
     [file |-> [stem |-> "a", ext |-> "wav"], species |-> "A",
      off |-> (k - 1) \div MaxDur, dur |-> ((k - 1) % MaxDur) + 1, idx |-> 0]])

\* the canonical entry of a.wav exists, written by an earlier run
InitClip ==
  /\ rawFs = [p \in Paths |-> "ok"]
  /\ \E n \in 0..MaxLen : canonStore = [s \in {"a"} |-> Wave(n)]
  /\ clipCache = <<>>
  /\ cfg = Config(3, 0)
  /\ data = ClipTable
  /\ split = [train |-> data, valid |-> <<>>]
  /\ ds = [d \in DsNames |-> NoDataset]
  /\ pc = "script"
  /\ ret = NoRet
  /\ pending = NoCall

NextClip ==
  \/ Build
  \/ \E index \in 0..Len(ds["train"].samples) : GetClip("train", index)
SpecClip == InitClip /\ [][NextClip]_vars

\* ------------------------------------------------ claims, clip extraction
RetRow == ds[ret.d].samples[ret.index + 1]
RetCanon == canonStore[RetRow.file.stem]

\* C1: every waveform get_clip returns, extracted or loaded from the clip
\* cache, has exactly num_samples samples, and so has every clip cache entry.
C1_ClipLengthExact ==
  /\ ret.kind = "clip" => Len(ret.audio) = num_samples
  /\ \A k \in DOMAIN clipCache : Len(clipCache[k]) = num_samples

\* a clip loaded from the cache for a window that starts past the end of a
\* canonical tensor longer than the window: zeros only
C1_Witness ==
  /\ ret.kind = "clip" /\ ret.hit
  /\ Len(RetCanon) > Frames(RetRow.dur)
  /\ Frames(RetRow.off) >= Len(RetCanon)
  /\ ret.audio = Zeros(num_samples)

\* C2: on a clip cache miss the clip is the canonical waveform sliced at
\* [offset*sample_rate : offset*sample_rate + duration*sample_rate], then
\* cut to the first num_samples samples or padded with zeros to num_samples.
SliceThenFit(audio, off, dur) ==
  LET window == PySlice(audio, Frames(off), Frames(off) + Frames(dur))
  IN IF Len(window) >= num_samples THEN SubSeq(window, 1, num_samples)
     ELSE window \o Zeros(num_samples - Len(window))
C2_MissIsSliceOfWindow ==
  (ret.kind = "clip" /\ ~ret.hit) =>
     ret.audio = SliceThenFit(RetCanon, RetRow.off, RetRow.dur)

\* C14: every extraction that writes a clip cache key writes the same
\* content: a clip cache entry is the clip that extraction from the
\* canonical file, offset and duration of any row mapping to its key
\* produces, an entry never changes, and get_clip returns that clip.
C14_SameKeySameClip ==
  [][ /\ \A k \in DOMAIN clipCache :
           k \in DOMAIN clipCache' /\ clipCache'[k] = clipCache[k]
      /\ \A i \in 1..Len(ds'["train"].samples) :
           LET r == ds'["train"].samples[i]
               k == ClipKey(r.file, r.off)
           IN k \in DOMAIN clipCache' =>
                clipCache'[k] = ExtractClip(canonStore'[r.file.stem], r.off, r.dur)
      /\ ret'.kind = "clip" =>
           ret'.audio = ExtractClip(canonStore'[ds'[ret'.d].samples[ret'.index + 1].file.stem],
                                    ds'[ret'.d].samples[ret'.index + 1].off,
                                    ds'[ret'.d].samples[ret'.index + 1].dur) ]_vars

\* ------------------------------------------------------------ get_datasets
\* rows of the manifest: any file with any species
MainRows ==
  {[file |-> p, species |-> sp, off |-> 0, dur |-> 1, idx |-> 0] :
     p \in Paths, sp \in Species}

Init ==
  /\ rawFs \in [Paths -> {"ok", "corrupt"}]
  /\ canonStore = <<>>
  /\ clipCache = <<>>
  /\ \E train_p \in {2, 3} : cfg = Config(train_p, 0)
  /\ \E rows \in SeqsUpTo(MainRows, MaxRows) : data = Reindex(rows)
  /\ split = [train |-> <<>>, valid |-> <<>>]
  /\ ds = [d \in DsNames |-> NoDataset]
  /\ pc = "start"
  /\ ret = NoRet
  /\ pending = NoCall

Next ==
  \/ Split
  \/ ConstructTrain
  \/ ConstructValid
  \/ \E d \in DsNames : \E index \in 0..Len(ds[d].samples) : GetClip(d, index)
Spec == Init /\ [][Next]_vars

\* ------------------------------------------------------- the split alone
\* manifests with three rows of species A and two rows of species B, each
\* row an annotation of any of the files
SplitSpecies == <<"A", "A", "A", "B", "B">>
SplitTables ==
  {[i \in 1..Len(SplitSpecies) |->
      [file |-> f[i], species |-> SplitSpecies[i], off |-> 0, dur |-> 1,
       idx |-> i - 1]] : f \in [1..Len(SplitSpecies) -> Paths]}

InitSplit ==
  /\ rawFs = [p \in Paths |-> "ok"]
  /\ canonStore = <<>>
  /\ clipCache = <<>>
  /\ cfg = Config(3, 0)
  /\ data \in SplitTables
  /\ split = [train |-> <<>>, valid |-> <<>>]
  /\ ds = [d \in DsNames |-> NoDataset]
  /\ pc = "start"
  /\ ret = NoRet
  /\ pending = NoCall

NextSplit == Split
SpecSplit == InitSplit /\ [][NextSplit]_vars

\* C12: the two tables of get_datasets are disjoint and together hold every
\* row of the manifest, and of three rows of species A and two rows of
\* species B with train_test_split = 0.6 each species has one or two rows in
\* the validation table.
RowsOf(rows, sp) == {i \in 1..Len(rows) : rows[i].species = sp}
NoDuplicates(s) == \A i, j \in 1..Len(s) : s[i] = s[j] => i = j
HotIndex(target) == {i - 1 : i \in {j \in 1..Len(target.num) : target.num[j] # 0}}

\* C8: the class index of the training dataset maps the distinct species of
\* the training split one-to-one onto 0..num_classes-1, num_classes is their
\* number, the validation dataset holds that same list and mapping, and a
\* label vector of either dataset is hot at the training index of its species.
C8_ClassIndexBijection ==
  /\ ds["train"].status = "ok" =>
       /\ NoDuplicates(ds["train"].classes)
       /\ Range(ds["train"].classes) = SpeciesOf(split.train)
       /\ DOMAIN ds["train"].class_to_idx = SpeciesOf(split.train)
       /\ {ds["train"].class_to_idx[c] : c \in SpeciesOf(split.train)}
            = 0..(ds["train"].num_classes - 1)
       /\ ds["train"].num_classes = Cardinality(SpeciesOf(split.train))
  /\ ds["valid"].status = "ok" =>
       /\ ds["valid"].classes = ds["train"].classes
       /\ ds["valid"].class_to_idx = ds["train"].class_to_idx
       /\ ds["valid"].num_classes = ds["train"].num_classes
  /\ ret.kind = "clip" =>
       /\ Len(ret.target.num) = ds["train"].num_classes
       /\ HotIndex(ret.target) = {ds["train"].class_to_idx[RetRow.species]}

\* a validation clip of the second of two training classes
C8_Witness ==
  /\ pc = "ready" /\ ds["train"].num_classes = 2
  /\ ds["train"].classes # Unique(Column(split.valid, "species"))
  /\ ret.kind = "clip" /\ ret.d = "valid"
  /\ HotIndex(ret.target) = {1}

\* C9: get_clip on a row whose species is no key of the class index raises
\* KeyError, and on no other row; it never returns a label vector for it.
C9_UnknownLabelRaises ==
  ret.kind \in {"clip", "KeyError", "RuntimeError"} =>
    (ret.kind = "KeyError" <=> RetRow.species \notin DOMAIN ds[ret.d].class_to_idx)

\* a validation row of a species the training split does not have
C9_Witness ==
  /\ ret.kind = "KeyError" /\ ret.d = "valid"
  /\ RetRow.species \notin SpeciesOf(split.train)
  /\ RetRow.species \in SpeciesOf(data)

\* ------------------------------------------------------------- item access
\* a manifest of items: the first rows of this table
ItemRows ==
  << [file |-> [stem |-> "a", ext |-> "wav"], species |-> "A", off |-> 0,
      dur |-> 1, idx |-> 0],
     [file |-> [stem |-> "b", ext |-> "wav"], species |-> "B", off |-> 0,
      dur |-> 1, idx |-> 0],
     [file |-> [stem |-> "b", ext |-> "wav"], species |-> "A", off |-> 0,
      dur |-> 1, idx |-> 0],
     [file |-> [stem |-> "a", ext |-> "mp3"], species |-> "B", off |-> 0,
      dur |-> 1, idx |-> 0] >>
ItemTables == {SubSeq(ItemRows, 1, n) : n \in 0..Len(ItemRows)}

\* a.wav may decode to non-finite samples
InitItem ==
  /\ rawFs \in {f \in [Paths -> {"ok", "nan"}] :
                  \A p \in Paths : f[p] = "nan" => p = [stem |-> "a", ext |-> "wav"]}
  /\ canonStore = <<>>
  /\ clipCache = <<>>
  /\ \E p \in {0, ProbDen} : cfg = Config(3, p)
  /\ \E rows \in ItemTables : data = Reindex(rows)
  /\ split = [train |-> <<>>, valid |-> <<>>]
  /\ ds = [d \in DsNames |-> NoDataset]
  /\ pc = "start"
  /\ ret = NoRet
  /\ pending = NoCall

NextItem ==
  \/ Split
  \/ ConstructTrain
  \/ ConstructValid
  \/ \E d \in DsNames : \E index \in 0..Len(ds[d].samples) : GetItem(d, index)
  \/ \E d \in DsNames : \E index \in 0..Len(ds[d].samples) : GetClip(d, index)
SpecItem == InitItem /\ [][NextItem]_vars

\* ------------------------------------------------ claims, the label vector
RECURSIVE SumSeq(_)
SumSeq(s) == IF s = <<>> THEN 0 ELSE s[Len(s)] + SumSeq(SubSeq(s, 1, Len(s) - 1))

\* C10: every label vector get_clip or __getitem__ returns (unmixed, mixed
\* under any coefficient, or returned after retries) has num_classes entries,
\* none negative, that sum to 1.
C10_LabelVectorSumsToOne ==
  ret.kind \in {"clip", "item"} =>
    /\ Len(ret.target.num) = ds[ret.d].num_classes
    /\ \A i \in 1..Len(ret.target.num) : ret.target.num[i] >= 0
    /\ ret.target.den > 0
    /\ SumSeq(ret.target.num) = ret.target.den

\* a step in which line 291 made a call
Retried == pending' # NoCall /\ pending' # pending

\* the call self[...] of line 291 is a synchronous call: once made, it runs
Retry == pending # NoCall /\ GetItem(pending.d, pending.index)
SpecItemFair == SpecItem /\ WF_vars(Retry)

Failed(d) == ds'[d].bad_files[Len(ds'[d].bad_files)]
C16_RetryOnDifferentRow ==
  [][ /\ Retried =>
           /\ ds'[pending'.d].status = "ok"
           /\ ds'[pending'.d].bad_files =
                Append(ds[pending'.d].bad_files, Failed(pending'.d))
           /\ pending # NoCall =>
                (pending.d = pending'.d /\ pending.index = Failed(pending'.d))
           /\ pending'.index # Failed(pending'.d)
      /\ ret'.kind = "item" => ~HasNaN(ret'.image.audio) ]_vars

\* C17: in a training access a step whose configured probability is 0 is
\* not applied and a step whose configured probability is 1 is applied.
StepP ==
  [shift |-> cfg.time_shift_p, noise |-> cfg.noise_p, mixup |-> cfg.mix_p,
   freq_mask |-> cfg.freq_mask_p, time_mask |-> cfg.time_mask_p]
C17_StepsGatedByProbability ==
  (ret.kind = "item" /\ ret.d = "train") =>
    \A st \in DOMAIN StepP :
      /\ StepP[st] = 0 => st \notin ret.image.steps
      /\ StepP[st] = ProbDen => st \in ret.image.steps

\* a label mixed from two classes, returned by a retry
C10_Witness ==
  /\ ret.kind = "item" /\ ret.retries >= 1
  /\ "mixup" \in ret.image.steps
  /\ Cardinality(HotIndex(ret.target)) = 2

\* ------------------------------------------- access after rows were dropped
\* a manifest of two annotations of a.wav (the first may lack its duration)
\* and one of b.wav
AccessRows(dur) ==
  << [file |-> [stem |-> "a", ext |-> "wav"], species |-> "A", off |-> 0,
      dur |-> dur, idx |-> 0],
     [file |-> [stem |-> "a", ext |-> "wav"], species |-> "A", off |-> 1,
      dur |-> 1, idx |-> 1],
     [file |-> [stem |-> "b", ext |-> "wav"], species |-> "B", off |-> 0,
      dur |-> 1, idx |-> 2] >>

\* a script that holds the manifest; b.wav may decode to non-finite samples
InitAccess ==
  /\ rawFs \in {f \in [Paths -> {"ok", "nan"}] :
                  \A p \in Paths : f[p] = "nan" => p = [stem |-> "b", ext |-> "wav"]}
  /\ canonStore = <<>>
  /\ clipCache = <<>>
  /\ cfg = Config(3, 0)
  /\ \E dur \in {1, Null} : data = AccessRows(dur)
  /\ split = [train |-> data, valid |-> data]
  /\ ds = [d \in DsNames |-> NoDataset]
  /\ pc = "script"
  /\ ret = NoRet
  /\ pending = NoCall

\* the script constructs one dataset of the manifest, in training mode
\* (PyhaDF_Dataset(df)) or in validation mode (PyhaDF_Dataset(df, train=False))
BuildAs(d) ==
  /\ pc = "script"
  /\ \A e \in DsNames : ds[e].status = "none"
  /\ Construct(d, split[d], d = "train", NoSpecies)
  /\ pc' = pc

\* the environment: a canonical entry is deleted from the cache directory
RemoveCanon(stem) ==
  /\ pending = NoCall
  /\ stem \in DOMAIN canonStore
  /\ canonStore' = [t \in DOMAIN canonStore \ {stem} |-> canonStore[t]]
  /\ UNCHANGED <<rawFs, clipCache, cfg, data, split, ds, pc, ret, pending>>

\* the indices a caller or line 291 may pass: positions, and the labels
\* the table had before rows were dropped
NextAccess ==
  \/ \E d \in DsNames : BuildAs(d)
  \/ \E d \in DsNames : \E index \in 0..Len(ds[d].verified) : GetItem(d, index)
  \/ \E stem \in Stems : RemoveCanon(stem)
SpecAccess == InitAccess /\ [][NextAccess]_vars

\* ------------------------------------------------- claims, access and retry
\* The results dataset[index] may have on dataset d, on canonical store
\* store and clip cache cache, whatever is drawn: the body of __getitem__
\* and the calls line 291 nests, depth levels deep so far
RECURSIVE Outcomes(_, _, _, _, _)
Outcomes(d, index, depth, store, cache) ==
  UNION { LET out == getitem(d, index, g, store, cache)
          IN IF out.kind = "nan"
             THEN IF RecursionOverflow(depth + 1)
                  THEN {[kind |-> "RecursionError"]}
                  ELSE UNION {Outcomes(d, d.samples[i].idx, depth + 1, store,
                                       out.cache) : i \in 1..Len(d.samples)}
             ELSE IF out.kind = "item"
             THEN {[kind |-> "item", target |-> out.target, image |-> out.image]}
             ELSE {[kind |-> out.kind]}
        : g \in Draws(d) }

\* C11: an access in validation mode applies no augmentation step, and two
\* accesses of the same index on the same dataset and cache contents have
\* the same result.
C11_ValidationDeterministic ==
  (ds["valid"].status = "ok" /\ ~ds["valid"].train /\ pending = NoCall) =>
    \A index \in 0..(Len(ds["valid"].samples) - 1) :
      LET results == Outcomes(ds["valid"], index, 0, canonStore, clipCache)
      IN /\ Cardinality(results) = 1
         /\ \A o \in results : o.kind = "item" => o.image.steps = {}

\* C18: a failure of get_clip to load or extract the clip of the row that
\* __getitem__ was called with ends the access with RuntimeError for that
\* row; an access that ends with RuntimeError starts no retry, leaves the
\* bad-file log as it was and leaves no clip cache entry for a key whose
\* clip cannot be produced.
ClipFails(d, index) ==
  /\ ds[d].status = "ok"
  /\ get_clip(ds[d], index, canonStore, clipCache).kind = "RuntimeError"
\* the row an access step was made on: the one it logged, or else the one
\* its result names
Accessed(d) ==
  IF ds'[d].bad_files # ds[d].bad_files THEN Failed(d) ELSE ret'.index
C19_IndicesArePositions ==
  /\ pending # NoCall =>
       pending.index \in 0..(Len(ds[pending.d].samples) - 1)
  /\ \A d \in DsNames : ds[d].status = "ok" =>
       \A g \in Draws(ds[d]) : g.partner \in 0..Max(0, Len(ds[d].samples) - 1)

====
